---- MODULE Spec2Model ----
(***************************************************************************)
(* Model of the Pelix remote-services Dispatcher                           *)
(* (src/pelix/remote/dispatcher.py): the three index maps, the export /    *)
(* update / unexport handlers run by service_changed, and the bind/unbind  *)
(* callbacks of exporters and listeners; and of the RegistryServlet of the *)
(* same file: its binding to HTTP servers, its GET and POST handlers and   *)
(* the transformation of an endpoint into a wire record and back.          *)
(*                                                                         *)
(* Every handler is an operator from the dispatcher's state and the        *)
(* handler's inputs to the state it leaves, together with the log `calls`  *)
(* of the calls it made on its collaborators (exporters, listeners), in    *)
(* call order, and `escaped`, the exception that left the handler, if any. *)
(* An action runs one handler and keeps the state it leaves.  SpecThreads  *)
(* runs the handlers that write the maps one source line at a time.        *)
(***************************************************************************)
EXTENDS Integers, Sequences, FiniteSets, TLC

\* Number of UIDs the exporters of a run can hand out.
MaxUid == 2

Services  == {"s1", "s2"}
Exporters == {"e1", "e2"}
\* The listeners, in the order in which they are bound
ListenerIds == <<"l1", "l2">>
Listeners == {ListenerIds[i] : i \in DOMAIN ListenerIds}

\* Values svc_ref.get_property("exported.configs") can return; "absent" is None.
ConfigValues == {"absent", "*", "cfgA", "cfgB"}

\* ServiceEvent kinds
REGISTERED        == "REGISTERED"
MODIFIED          == "MODIFIED"
UNREGISTERING     == "UNREGISTERING"
MODIFIED_ENDMATCH == "MODIFIED_ENDMATCH"
Kinds == {REGISTERED, MODIFIED, UNREGISTERING, MODIFIED_ENDMATCH}

VARIABLES
    exporters,      \* self._exporters: list of bound exporters
    listeners,      \* self._listeners: list of bound listeners
    endpoints,      \* self.__endpoints: UID -> endpoint
    uid_exporter,   \* self.__uid_exporter: UID -> exporter
    service_uids,   \* self.__service_uids: service reference -> set of UIDs
    validated,      \* self.__validated
    listening,      \* context.add_service_listener(self, ...) has been reached
    nextUid,        \* next unused UID of the exporters
    ports,          \* RegistryServlet._ports: ports of the servers it is bound to
    controller,     \* RegistryServlet._controller: the servlet service is provided
    pc,             \* the handler a thread is running line by line, and where it is
    reader,         \* a thread inside get_endpoints: what it holds of self.__lock
    pc2,            \* the handler a second thread is running line by line
    told            \* (listener, UID) -> number of endpoints_added calls in which
                    \* the listener was given the endpoint, counted up to two

vars == <<exporters, listeners, endpoints, uid_exporter, service_uids, validated,
          listening, nextUid, ports, controller, pc, reader, pc2, told>>

servletVars == <<ports, controller>>
threadVars  == <<pc, reader, pc2, told>>

----------------------------------------------------------------------------
\* Helpers: dictionaries, lists, iteration orders

Put(f, k, v) == [x \in DOMAIN f \cup {k} |-> IF x = k THEN v ELSE f[x]]
Drop(f, k)   == [x \in DOMAIN f \ {k} |-> f[x]]
EmptyMap     == [x \in {} |-> 0]

Range(s) == {s[i] : i \in DOMAIN s}
Remove(s, x) == SelectSeq(s, LAMBDA y : y # x)

\* All the orders in which a Python set / dict can be iterated
RECURSIVE Orders(_)
Orders(S) ==
    IF S = {} THEN {<<>>}
    ELSE UNION {{<<x>> \o t : t \in Orders(S \ {x})} : x \in S}

\* list(d.values()) of a dictionary keyed by UID
RECURSIVE Values(_)
Values(d) ==
    IF DOMAIN d = {} THEN <<>>
    ELSE LET k == CHOOSE x \in DOMAIN d : \A y \in DOMAIN d : x <= y
         IN  <<d[k]>> \o Values(Drop(d, k))

\* The lists without repetition over a set
ListsOf(S) == UNION {Orders(T) : T \in SUBSET S}

----------------------------------------------------------------------------
\* Collaborators

\* exporter.handles(configs): each exporter handles one configuration, so a
\* configuration has no exporter while the one that handles it is not bound
handles(exporter, configs) ==
    \/ exporter = "e1" /\ configs = "cfgA"
    \/ exporter = "e2" /\ configs = "cfgB"

\* Results of exporter.export_service: an endpoint with a new UID (u = 0), an
\* endpoint with the UID u, None, or a NameError / BundleException
Created   == [k |-> "ok",   u |-> 0]
Declined  == [k |-> "none", u |-> 0]
Failed    == [k |-> "err",  u |-> 0]
Reused(u) == [k |-> "ok",   u |-> u]
FreshOutcomes == {Created, Declined, Failed}

\* One collaborator call
Call(tgt, m, svc, eps, old, res) ==
    [tgt |-> tgt, m |-> m, svc |-> svc, eps |-> eps, old |-> old, res |-> res]

\* The dispatcher's state as one value, threaded through a handler.
\* calls: the collaborator calls the handler made, in order; ran: the private
\* methods it invoked; escaped: the exception that left it ("none": it returned)
Machine ==
    [endpoints |-> endpoints, uid_exporter |-> uid_exporter,
     service_uids |-> service_uids, nextUid |-> nextUid,
     calls |-> <<>>, ran |-> <<>>, escaped |-> "none"]

Log(m, c) == [m EXCEPT !.calls = Append(@, c)]

\* for listener in self._listeners: listener.<event>(...), no try/except:
\* the first listener that raises ends the loop and the handler
RECURSIVE NotifyUnguarded(_, _, _, _)
NotifyUnguarded(m, lsts, c, bad) ==
    IF lsts = <<>> THEN m
    ELSE LET l == Head(lsts) IN
         IF l \in bad
         THEN [Log(m, [c EXCEPT !.tgt = l, !.res = "raise"])
                  EXCEPT !.escaped = "Exception"]
         ELSE NotifyUnguarded(Log(m, [c EXCEPT !.tgt = l, !.res = "ok"]),
                              Tail(lsts), c, bad)

\* for listener in self._listeners[:]: try: listener.<event>(...) except Exception
RECURSIVE NotifyGuarded(_, _, _, _)
NotifyGuarded(m, lsts, c, bad) ==
    IF lsts = <<>> THEN m
    ELSE LET l == Head(lsts) IN
         NotifyGuarded(Log(m, [c EXCEPT !.tgt = l,
                                        !.res = IF l \in bad THEN "raise" ELSE "ok"]),
                       Tail(lsts), c, bad)

----------------------------------------------------------------------------
\* Dispatcher.__export_service

\* The exporters asked to export a service with these exported.configs
Candidates(exps, configs) ==
    IF configs = "absent" \/ configs = "*"
    THEN exps
    ELSE SelectSeq(exps, LAMBDA e : handles(e, configs))

\* Store without the line self.__uid_exporter[uid] = exporter
Store_NoExporter(m, svc, ep) ==
    [m EXCEPT !.endpoints = Put(@, ep.uid, ep),
              !.service_uids =
                  Put(@, svc, (IF svc \in DOMAIN @ THEN @[svc] ELSE {}) \cup {ep.uid})]

\* self.__endpoints[uid] = endpoint; self.__uid_exporter[uid] = exporter;
\* service_uids.add(uid)
Store(m, svc, ep) ==
    [m EXCEPT !.endpoints = Put(@, ep.uid, ep),
              !.uid_exporter = Put(@, ep.uid, ep.exp),
              !.service_uids =
                  Put(@, svc, (IF svc \in DOMAIN @ THEN @[svc] ELSE {}) \cup {ep.uid})]

\* The endpoint an exporter returns
NewEndpoint(m, svc, e, out) ==
    [uid |-> IF out.u = 0 THEN m.nextUid ELSE out.u, exp |-> e, svc |-> svc]

Issue(m, out) == IF out.u = 0 THEN [m EXCEPT !.nextUid = @ + 1] ELSE m

\* The loop with the try/except around it instead of inside it: the first
\* exporter that raises ends the loop
RECURSIVE CreateEndpoints_FailFast(_, _, _, _)
CreateEndpoints_FailFast(r, svc, exps, outs) ==
    IF exps = <<>> THEN r
    ELSE LET e   == Head(exps)
             out == outs[e]
             ep  == [uid |-> IF out.u = 0 THEN r.m.nextUid ELSE out.u, exp |-> e, svc |-> svc]
         IN  IF out.k = "ok"
             THEN CreateEndpoints_FailFast(
                    [m   |-> Store(Issue(Log(r.m, Call(e, "export_service", svc, <<ep>>, FALSE, "ok")), out), svc, ep),
                     eps |-> Append(r.eps, ep)],
                    svc, Tail(exps), outs)
             ELSE IF out.k = "err"
             THEN [r EXCEPT !.m = Log(@, Call(e, "export_service", svc, <<>>, FALSE, out.k))]
             ELSE CreateEndpoints_FailFast(
                    [r EXCEPT !.m = Log(@, Call(e, "export_service", svc, <<>>, FALSE, out.k))],
                    svc, Tail(exps), outs)

\* The loop over the candidate exporters; r = [m, eps]
RECURSIVE CreateEndpoints(_, _, _, _)
CreateEndpoints(r, svc, exps, outs) ==
    IF exps = <<>> THEN r
    ELSE LET e   == Head(exps)
             out == outs[e]
             ep  == NewEndpoint(r.m, svc, e, out)
         IN  IF out.k = "ok"
             THEN CreateEndpoints(
                    [m   |-> Store(Issue(Log(r.m, Call(e, "export_service", svc, <<ep>>, FALSE, "ok")), out), svc, ep),
                     eps |-> Append(r.eps, ep)],
                    svc, Tail(exps), outs)
             ELSE CreateEndpoints(
                    [r EXCEPT !.m = Log(@, Call(e, "export_service", svc, <<>>, FALSE, out.k))],
                    svc, Tail(exps), outs)

export_service(m0, svc, configs, exps, lsts, outs, bad) ==
    LET m1 == [m0 EXCEPT !.ran = Append(@, "export"),
                         !.service_uids = IF svc \in DOMAIN @ THEN @ ELSE Put(@, svc, {})]
        cands == Candidates(exps, configs)
        r  == CreateEndpoints([m |-> m1, eps |-> <<>>], svc, cands, outs)
    IN  IF exps = <<>> THEN m1
        ELSE IF cands = <<>> THEN m1
        ELSE IF r.eps = <<>> THEN r.m
        ELSE NotifyUnguarded(r.m, lsts, Call("", "endpoints_added", svc, r.eps, FALSE, ""), bad)

----------------------------------------------------------------------------
\* Dispatcher.__update_service

RECURSIVE UpdateLoop(_, _, _, _, _, _)
UpdateLoop(m, svc, uids, lsts, upd, bad) ==
    IF uids = <<>> \/ m.escaped # "none" THEN m
    ELSE LET uid == Head(uids) IN
         IF uid \notin DOMAIN m.uid_exporter \/ uid \notin DOMAIN m.endpoints
         THEN \* KeyError; then set.retain does not exist
              [m EXCEPT !.escaped = "AttributeError"]
         ELSE LET exporter == m.uid_exporter[uid]
                  endpoint == m.endpoints[uid]
              IN  IF upd[uid] = "err"
                  THEN UpdateLoop(
                         NotifyUnguarded(
                           Log(Log(m, Call(exporter, "update_export", svc, <<endpoint>>, TRUE, "err")),
                               Call(exporter, "unexport_service", svc, <<endpoint>>, FALSE, "ok")),
                           lsts, Call("", "endpoint_removed", svc, <<endpoint>>, TRUE, ""), bad),
                         svc, Tail(uids), lsts, upd, bad)
                  ELSE UpdateLoop(
                         NotifyUnguarded(
                           Log(m, Call(exporter, "update_export", svc, <<endpoint>>, TRUE, "ok")),
                           lsts, Call("", "endpoint_updated", svc, <<endpoint>>, TRUE, ""), bad),
                         svc, Tail(uids), lsts, upd, bad)

\* order: the iteration order of the copy of the service's UID set
update_service(m0, svc, order, lsts, upd, bad) ==
    LET m1 == [m0 EXCEPT !.ran = Append(@, "update")]
    IN  IF svc \notin DOMAIN m0.service_uids THEN m1
        ELSE UpdateLoop(m1, svc, order, lsts, upd, bad)

----------------------------------------------------------------------------
\* Dispatcher.__unexport_service

RECURSIVE UnexportLoop(_, _, _, _, _)
UnexportLoop(m, svc, uids, lsts, bad) ==
    IF uids = <<>> THEN m
    ELSE LET uid == Head(uids) IN
         IF uid \notin DOMAIN m.endpoints
         THEN UnexportLoop(m, svc, Tail(uids), lsts, bad)
         ELSE IF uid \notin DOMAIN m.uid_exporter
         THEN UnexportLoop([m EXCEPT !.endpoints = Drop(@, uid)], svc, Tail(uids), lsts, bad)
         ELSE LET endpoint == m.endpoints[uid]
                  exporter == m.uid_exporter[uid]
                  m2 == [m EXCEPT !.endpoints = Drop(@, uid),
                                  !.uid_exporter = Drop(@, uid)]
              IN  UnexportLoop(
                    NotifyGuarded(
                      Log(m2, Call(exporter, "unexport_service", svc, <<endpoint>>, FALSE, "ok")),
                      lsts, Call("", "endpoint_removed", svc, <<endpoint>>, FALSE, ""), bad),
                    svc, Tail(uids), lsts, bad)

\* unexport without the try/except KeyError around the pop of the record
unexport_service_NoGuard(m0, svc, order, lsts, bad) ==
    LET m1 == [m0 EXCEPT !.ran = Append(@, "unexport")]
    IN  IF svc \notin DOMAIN m0.service_uids THEN [m1 EXCEPT !.escaped = "KeyError"]
        ELSE UnexportLoop([m1 EXCEPT !.service_uids = Drop(@, svc)], svc, order, lsts, bad)

\* order: the iteration order of the popped UID set
unexport_service(m0, svc, order, lsts, bad) ==
    LET m1 == [m0 EXCEPT !.ran = Append(@, "unexport")]
    IN  IF svc \notin DOMAIN m0.service_uids THEN m1
        ELSE UnexportLoop([m1 EXCEPT !.service_uids = Drop(@, svc)], svc, order, lsts, bad)

----------------------------------------------------------------------------
\* Dispatcher.service_changed

UidsOf(m, svc) == IF svc \in DOMAIN m.service_uids THEN m.service_uids[svc] ELSE {}

\* service_changed that takes every MODIFIED event for a properties update
service_changed_ModifiedUpdates(m, kind, svc, configs, order, exps, lsts, outs, upd, bad) ==
    IF kind = REGISTERED
    THEN export_service(m, svc, configs, exps, lsts, outs, bad)
    ELSE IF kind = MODIFIED
    THEN update_service(m, svc, order, lsts, upd, bad)
    ELSE IF svc \in DOMAIN m.service_uids
            /\ (kind = UNREGISTERING \/ kind = MODIFIED_ENDMATCH)
    THEN unexport_service(m, svc, order, lsts, bad)
    ELSE m

service_changed(m, kind, svc, configs, order, exps, lsts, outs, upd, bad) ==
    IF kind = REGISTERED
    THEN export_service(m, svc, configs, exps, lsts, outs, bad)
    ELSE IF kind = MODIFIED
    THEN IF svc \notin DOMAIN m.service_uids
         THEN export_service(m, svc, configs, exps, lsts, outs, bad)
         ELSE update_service(m, svc, order, lsts, upd, bad)
    ELSE IF svc \in DOMAIN m.service_uids
            /\ (kind = UNREGISTERING \/ kind = MODIFIED_ENDMATCH)
    THEN unexport_service(m, svc, order, lsts, bad)
    ELSE m

----------------------------------------------------------------------------
\* Dispatcher._bind_listener, _bind_exporter, _unbind_exporter, validate

bind_listener(m0, listener, bad) ==
    IF DOMAIN m0.endpoints # {}
    THEN NotifyGuarded(m0, <<listener>>,
                       Call("", "endpoints_added", "", Values(m0.endpoints), FALSE, ""), bad)
    ELSE m0

\* self._compute_endpoint_name(svc_ref) as _bind_exporter calls it: the mapping
\* calls properties.get(...) and properties[...] are made on the service
\* reference itself; nameOk tells whether the reference answers them
compute_endpoint_name_of_reference(m, nameOk) ==
    IF nameOk THEN m ELSE [m EXCEPT !.escaped = "AttributeError"]

\* The loop over the services on record; outs: the exporter's result per service
RECURSIVE BindExporterLoop(_, _, _, _, _, _, _)
BindExporterLoop(m, exporter, svcs, lsts, outs, bad, nameOk) ==
    IF svcs = <<>> \/ m.escaped # "none" THEN m
    ELSE LET svc == Head(svcs)
             m1  == compute_endpoint_name_of_reference(m, nameOk)
             out == outs[svc]
             ep  == NewEndpoint(m1, svc, exporter, out)
         IN  IF m1.escaped # "none" THEN m1
             ELSE IF out.k = "err"
             THEN BindExporterLoop(
                    Log(m1, Call(exporter, "export_service", svc, <<>>, FALSE, "err")),
                    exporter, Tail(svcs), lsts, outs, bad, nameOk)
             ELSE IF out.k = "none"
             THEN \* endpoint.uid on None
                  [Log(m1, Call(exporter, "export_service", svc, <<>>, FALSE, "none"))
                      EXCEPT !.escaped = "AttributeError"]
             ELSE BindExporterLoop(
                    NotifyUnguarded(
                      Store(Issue(Log(m1, Call(exporter, "export_service", svc, <<ep>>, FALSE, "ok")), out), svc, ep),
                      lsts, Call("", "endpoints_added", svc, <<ep>>, FALSE, ""), bad),
                    exporter, Tail(svcs), lsts, outs, bad, nameOk)

\* order: the iteration order of self.__service_uids
bind_exporter(m0, exporter, order, lsts, outs, bad, nameOk) ==
    IF ~validated THEN m0
    ELSE BindExporterLoop(m0, exporter, order, lsts, outs, bad, nameOk)

\* TODO in the source: nothing is done
unbind_exporter(m0, exporter) == m0

\* The loop of validate over the existing references
RECURSIVE ValidateLoop(_, _, _, _, _, _, _)
ValidateLoop(m, refs, configs, exps, lsts, outs, bad) ==
    IF refs = <<>> \/ m.escaped # "none" THEN m
    ELSE ValidateLoop(
           export_service(m, Head(refs), configs[Head(refs)], exps, lsts, outs[Head(refs)], bad),
           Tail(refs), configs, exps, lsts, outs, bad)

\* Python's None, where an endpoint is expected
None == [uid |-> 0, exp |-> "", svc |-> ""]

\* self.__endpoints.get(uid)
get_endpoint(m, uid) == IF uid \in DOMAIN m.endpoints THEN m.endpoints[uid] ELSE None

\* get_endpoints() with neither kind nor name
get_endpoints(m) == Values(m.endpoints)

----------------------------------------------------------------------------
\* A thread that runs a handler line by line; Idle: no handler is in progress.
\* op: the handler; at: the source line it is about to run; svc, exp: the
\* service and the exporter it works on; todo: what its loop has left; ep: the
\* endpoint in hand; eps: the list `endpoints` of __export_service
Frame(op, at, svc, exp, todo, ep) ==
    [op |-> op, at |-> at, svc |-> svc, exp |-> exp, todo |-> todo, ep |-> ep,
     eps |-> <<>>]
Idle == Frame("idle", 0, "", "", <<>>, None)

----------------------------------------------------------------------------
\* Actions

\* The handler's result becomes the next state
Commit(m) ==
    /\ m.nextUid <= MaxUid + 1
    /\ endpoints' = m.endpoints
    /\ uid_exporter' = m.uid_exporter
    /\ service_uids' = m.service_uids
    /\ nextUid' = m.nextUid

OutcomeSet(dup) ==
    IF dup THEN FreshOutcomes \cup {Reused(u) : u \in 1..(nextUid - 1)} ELSE FreshOutcomes

\* The listeners that can raise where some listener is called at all
BadSets(called) == IF called THEN SUBSET Range(listeners) ELSE {{}}

RunsExport(kind, svc) ==
    kind = REGISTERED \/ (kind = MODIFIED /\ svc \notin DOMAIN service_uids)
RunsUpdate(kind, svc) == kind = MODIFIED /\ svc \in DOMAIN service_uids

Init ==
    /\ exporters = <<>>
    /\ listeners = <<>>
    /\ endpoints = EmptyMap
    /\ uid_exporter = EmptyMap
    /\ service_uids = EmptyMap
    /\ validated = FALSE
    /\ listening = FALSE
    /\ nextUid = 1
    /\ ports = <<>>
    /\ controller = FALSE
    /\ pc = Idle
    /\ reader = "out"
    /\ pc2 = Idle
    /\ told = EmptyMap

ValidateWith(dup) ==
    /\ ~validated
    /\ \E refs \in ListsOf(Services) :
       \E configs \in [Range(refs) -> ConfigValues] :
       \E outs \in [Range(refs) -> [Range(exporters) -> OutcomeSet(dup)]] :
       \E bad \in BadSets(\E s \in Range(refs), e \in Range(exporters) : outs[s][e].k = "ok") :
         LET m == ValidateLoop(Machine, refs, configs, exporters, listeners, outs, bad)
         IN  /\ Commit(m)
             /\ validated' = TRUE
             /\ listening' = (m.escaped = "none")
    /\ UNCHANGED <<exporters, listeners, servletVars, threadVars>>

ExportEvent(dup, kind, svc) ==
    /\ RunsExport(kind, svc)
    /\ \E configs \in ConfigValues :
       \E outs \in [Range(Candidates(exporters, configs)) -> OutcomeSet(dup)] :
       \E bad \in BadSets(\E e \in DOMAIN outs : outs[e].k = "ok") :
         /\ Commit(service_changed(Machine, kind, svc, configs, <<>>,
                                   exporters, listeners, outs, <<>>, bad))

OtherEvent(kind, svc) ==
    /\ ~RunsExport(kind, svc)
    /\ \E order \in Orders(IF svc \in DOMAIN service_uids THEN service_uids[svc] ELSE {}) :
       \E upd \in [Range(order) -> IF RunsUpdate(kind, svc) THEN {"ok", "err"} ELSE {"ok"}] :
       \E bad \in BadSets(order # <<>>) :
         /\ Commit(service_changed(Machine, kind, svc, "", order,
                                   exporters, listeners, <<>>, upd, bad))

ServiceChangedWith(dup, kind, svc) ==
    /\ listening
    /\ (ExportEvent(dup, kind, svc) \/ OtherEvent(kind, svc))
    /\ UNCHANGED <<exporters, listeners, validated, listening, servletVars, threadVars>>

BindListener(listener) ==
    /\ Len(listeners) < Len(ListenerIds)
    /\ listener = ListenerIds[Len(listeners) + 1]
    /\ listeners' = Append(listeners, listener)
    /\ \E bad \in SUBSET {listener} :
         Commit(bind_listener(Machine, listener, bad))
    /\ UNCHANGED <<exporters, validated, listening, servletVars, threadVars>>

BindExporterWith(dup, exporter) ==
    /\ exporter \notin Range(exporters)
    /\ exporters' = Append(exporters, exporter)
    /\ \E order \in Orders(IF validated THEN DOMAIN service_uids ELSE {}) :
       \E nameOk \in (IF order = <<>> THEN {TRUE} ELSE BOOLEAN) :
       \E outs \in [Range(order) -> IF nameOk THEN OutcomeSet(dup) ELSE {Declined}] :
       \E bad \in BadSets(\E s \in Range(order) : outs[s].k = "ok") :
         Commit(bind_exporter(Machine, exporter, order, listeners, outs, bad, nameOk))
    /\ UNCHANGED <<listeners, validated, listening, servletVars, threadVars>>

UnbindExporter(exporter) ==
    /\ exporter \in Range(exporters)
    /\ exporters' = Remove(exporters, exporter)
    /\ Commit(unbind_exporter(Machine, exporter))
    /\ UNCHANGED <<listeners, validated, listening, servletVars, threadVars>>

Validate == ValidateWith(FALSE)
ServiceChanged(kind, svc) == ServiceChangedWith(FALSE, kind, svc)
BindExporter(exporter) == BindExporterWith(FALSE, exporter)

Next ==
    \/ Validate
    \/ \E kind \in Kinds, svc \in Services : ServiceChanged(kind, svc)
    \/ \E listener \in Listeners : BindListener(listener)
    \/ \E exporter \in Exporters : BindExporter(exporter)
    \/ \E exporter \in Exporters : UnbindExporter(exporter)

\* Exporters that hand out a new UID with every endpoint
Spec == Init /\ [][Next]_vars

ValidateDup == ValidateWith(TRUE)
ServiceChangedDup(kind, svc) == ServiceChangedWith(TRUE, kind, svc)
BindExporterDup(exporter) == BindExporterWith(TRUE, exporter)

NextDup ==
    \/ ValidateDup
    \/ \E kind \in Kinds, svc \in Services : ServiceChangedDup(kind, svc)
    \/ \E listener \in Listeners : BindListener(listener)
    \/ \E exporter \in Exporters : BindExporterDup(exporter)
    \/ \E exporter \in Exporters : UnbindExporter(exporter)

\* Exporters that may also return an endpoint whose UID was handed out before
SpecDup == Init /\ [][NextDup]_vars

----------------------------------------------------------------------------
\* Reading a handler's log

ListenerEvents == {"endpoints_added", "endpoint_updated", "endpoint_removed"}

\* The calls of method meth, on any target
CallsOf(m, meth) == SelectSeq(m.calls, LAMBDA c : c.m = meth)

\* The endpoints the exporters returned, in call order
RECURSIVE CreatedBy(_)
CreatedBy(cs) ==
    IF cs = <<>> THEN <<>>
    ELSE (IF Head(cs).m = "export_service" /\ Head(cs).res = "ok"
          THEN Head(cs).eps ELSE <<>>) \o CreatedBy(Tail(cs))

SameMaps(m1, m2) ==
    /\ m1.endpoints = m2.endpoints
    /\ m1.uid_exporter = m2.uid_exporter
    /\ m1.service_uids = m2.service_uids

\* The inputs of one export pass in the current state
ExportOuts(configs) == [Range(Candidates(exporters, configs)) -> FreshOutcomes]
BadListeners == SUBSET Range(listeners)
UidOrders(svc) == Orders(UidsOf(Machine, svc))
UpdateResults(svc) == [UidsOf(Machine, svc) -> {"ok", "err"}]

\* service_changed can be called: the service listener is registered
CanHandleEvents == listening

\* __export_service can be called: by validate or by service_changed
CanExport == listening \/ ~validated

----------------------------------------------------------------------------
\* C1 -- Index consistency: between operations, with exporters that return
\* distinct UIDs, the union of the UID sets of all service records equals the
\* key set of uid->endpoint, which equals the key set of uid->exporter.
C1_IndexConsistency ==
    /\ UNION {service_uids[s] : s \in DOMAIN service_uids} = DOMAIN endpoints
    /\ DOMAIN endpoints = DOMAIN uid_exporter

\* Both services are on record, an endpoint is live and another one was removed
C1_Witness ==
    /\ DOMAIN service_uids = Services
    /\ DOMAIN endpoints # {}
    /\ Cardinality(DOMAIN endpoints) < nextUid - 1

\* C2 -- Uniqueness: an endpoint whose UID is already in the index is not
\* inserted: in every step the endpoint and the exporter stored under a UID that
\* stays in the index are unchanged, and no two service records share a UID.
C2_Uniqueness ==
    [][/\ \A u \in DOMAIN endpoints \cap DOMAIN endpoints' :
             endpoints'[u] = endpoints[u]
       /\ \A u \in DOMAIN uid_exporter \cap DOMAIN uid_exporter' :
             uid_exporter'[u] = uid_exporter[u]
       /\ \A s1, s2 \in DOMAIN service_uids' :
             s1 # s2 => service_uids'[s1] \cap service_uids'[s2] = {}]_vars

\* C3 -- Idempotent unexport: a second unexport of the same service, right
\* after the first, calls no exporter and no listener, raises nothing and
\* leaves the three maps as the first call left them.
C3_IdempotentUnexport ==
    CanHandleEvents =>
    \A svc \in Services : \A order \in UidOrders(svc) : \A bad1, bad2 \in BadListeners :
        LET m1 == unexport_service(Machine, svc, order, listeners, bad1)
            m2 == unexport_service([m1 EXCEPT !.calls = <<>>, !.ran = <<>>],
                                   svc, order, listeners, bad2)
        IN  /\ m1.escaped = "none"
            /\ m2.calls = <<>>
            /\ m2.escaped = "none"
            /\ SameMaps(m2, m1)

\* A service on record with two live endpoints, and a listener to tell
C3_Witness ==
    /\ CanHandleEvents
    /\ listeners # <<>>
    /\ \E svc \in DOMAIN service_uids :
          /\ Cardinality(service_uids[svc]) >= 2
          /\ service_uids[svc] \subseteq DOMAIN endpoints
          /\ LET m1 == unexport_service(Machine, svc, CHOOSE o \in UidOrders(svc) : TRUE,
                                        listeners, {})
             IN  Len(m1.calls) >= 4 /\ ~SameMaps(m1, Machine)

----------------------------------------------------------------------------
\* The lifecycle changes a handler made: one per export pass that created an
\* endpoint, one per endpoint whose update was asked, one per endpoint removed
\* by unexport
Changes(m) ==
    IF m.ran = <<"export">> THEN (IF CreatedBy(m.calls) # <<>> THEN 1 ELSE 0)
    ELSE IF m.ran = <<"update">> THEN Len(CallsOf(m, "update_export"))
    ELSE Len(CallsOf(m, "unexport_service"))

\* The events listener l received from a handler
EventsTo(m, l) == SelectSeq(m.calls, LAMBDA c : c.tgt = l /\ c.m \in ListenerEvents)

\* C4 -- Listener convergence on late join: a listener bound when the index
\* holds N > 0 endpoints receives exactly one endpoints_added call listing
\* exactly these N endpoints, and no call when the index is empty; every
\* listener bound earlier then receives exactly one event for each lifecycle
\* change of every later service event.
C4_ListenerConvergence ==
    /\ \A l \in Listeners \ Range(listeners) : \A bad \in SUBSET {l} :
         LET m == bind_listener(Machine, l, bad)
         IN  IF DOMAIN endpoints = {} THEN m.calls = <<>>
             ELSE /\ Len(m.calls) = 1
                  /\ m.calls[1].tgt = l
                  /\ m.calls[1].m = "endpoints_added"
                  /\ Len(m.calls[1].eps) = Cardinality(DOMAIN endpoints)
                  /\ Range(m.calls[1].eps) = {endpoints[u] : u \in DOMAIN endpoints}
    /\ CanHandleEvents =>
       \A l \in Range(listeners) : \A bad \in BadListeners :
       \A svc \in Services, kind \in Kinds :
         IF RunsExport(kind, svc)
         THEN \A configs \in ConfigValues : \A outs \in ExportOuts(configs) :
                LET m == service_changed(Machine, kind, svc, configs, <<>>,
                                         exporters, listeners, outs, <<>>, bad)
                IN  Len(EventsTo(m, l)) = Changes(m)
         ELSE \A order \in UidOrders(svc) : \A upd \in UpdateResults(svc) :
                LET m == service_changed(Machine, kind, svc, "", order,
                                         exporters, listeners, <<>>, upd, bad)
                IN  Len(EventsTo(m, l)) = Changes(m)

\* C5 -- Dispatch table of service_changed: REGISTERED runs export; MODIFIED
\* runs export for a service without a record and update for one with a
\* record; UNREGISTERING and MODIFIED_ENDMATCH run unexport when a record
\* exists; anything else changes no map and calls no exporter and no listener.
C5_DispatchTable ==
    CanHandleEvents =>
    \A kind \in Kinds, svc \in Services : \A bad \in BadListeners :
        LET had == svc \in DOMAIN service_uids IN
        IF kind = REGISTERED \/ (kind = MODIFIED /\ ~had)
        THEN \A configs \in ConfigValues : \A outs \in ExportOuts(configs) :
               LET m == service_changed(Machine, kind, svc, configs, <<>>,
                                        exporters, listeners, outs, <<>>, bad)
               IN  /\ m.ran = <<"export">>
                   /\ svc \in DOMAIN m.service_uids
                   /\ Len(CallsOf(m, "export_service")) = Len(Candidates(exporters, configs))
        ELSE \A order \in UidOrders(svc) : \A upd \in UpdateResults(svc) :
               LET m == service_changed(Machine, kind, svc, "", order,
                                        exporters, listeners, <<>>, upd, bad)
               IN  IF kind = MODIFIED
                   THEN /\ m.ran = <<"update">>
                        /\ CallsOf(m, "export_service") = <<>>
                        /\ CallsOf(m, "update_export") # <<>> \/ order = <<>>
                        /\ m.service_uids = service_uids
                   ELSE IF had
                   THEN /\ m.ran = <<"unexport">>
                        /\ svc \notin DOMAIN m.service_uids
                        /\ Len(CallsOf(m, "unexport_service")) = Len(order)
                   ELSE /\ m.ran = <<>>
                        /\ m.calls = <<>>
                        /\ m.escaped = "none"
                        /\ SameMaps(m, Machine)

\* Events can be delivered, one service has a record with an endpoint, the
\* other service has none
C5_Witness ==
    /\ CanHandleEvents
    /\ exporters # <<>>
    /\ \E s1, s2 \in Services :
          /\ s1 \in DOMAIN service_uids
          /\ service_uids[s1] # {}
          /\ s2 \notin DOMAIN service_uids

\* C6 -- One notification per export pass: when a pass creates k >= 1
\* endpoints every registered listener receives exactly one endpoints_added
\* call, listing the k endpoints; when it creates none no listener is called.
C6_OneNotificationPerPass ==
    CanExport =>
    \A svc \in Services : \A configs \in ConfigValues :
    \A outs \in ExportOuts(configs) : \A bad \in BadListeners :
        LET m == export_service(Machine, svc, configs, exporters, listeners, outs, bad)
            created == CreatedBy(m.calls)
        IN  IF created = <<>>
            THEN \A l \in Range(listeners) : EventsTo(m, l) = <<>>
            ELSE \A l \in Range(listeners) :
                   /\ Len(EventsTo(m, l)) = 1
                   /\ EventsTo(m, l)[1].m = "endpoints_added"
                   /\ EventsTo(m, l)[1].eps = created

----------------------------------------------------------------------------
\* C7 -- Exporter selection and isolation in export: export_service is called
\* exactly once on every candidate (every registered exporter when
\* exported.configs is absent or "*", else those that handle the configs) and
\* on no other exporter, also after a candidate declined or raised; every
\* endpoint returned is in the index and in the service's record.
C7_SelectionAndIsolation ==
    CanExport =>
    \A svc \in Services : \A configs \in ConfigValues :
    \A outs \in ExportOuts(configs) : \A bad \in BadListeners :
        LET m     == export_service(Machine, svc, configs, exporters, listeners, outs, bad)
            asked == CallsOf(m, "export_service")
            cand  == IF configs \in {"absent", "*"} THEN Range(exporters)
                     ELSE {e \in Range(exporters) : handles(e, configs)}
        IN  /\ {asked[i].tgt : i \in DOMAIN asked} = cand
            /\ Len(asked) = Cardinality(cand)
            /\ \A i \in DOMAIN asked :
                 /\ asked[i].res = outs[asked[i].tgt].k
                 /\ asked[i].res = "ok" =>
                      LET ep == asked[i].eps[1]
                      IN  /\ ep.uid \in DOMAIN m.endpoints
                          /\ m.endpoints[ep.uid] = ep
                          /\ ep.uid \in DOMAIN m.uid_exporter
                          /\ m.uid_exporter[ep.uid] = asked[i].tgt
                          /\ ep.uid \in UidsOf(m, svc)

\* Two exporters are bound and a pass in which the first one raises still
\* stores the endpoint of the second one
C7_Witness ==
    /\ Len(exporters) = 2
    /\ CanExport
    /\ \E svc \in Services :
         LET outs == [e \in Range(exporters) |->
                         IF e = exporters[1] THEN Failed ELSE Created]
             m == export_service(Machine, svc, "*", exporters, listeners, outs, {})
         IN  /\ Len(CallsOf(m, "export_service")) = 2
             /\ nextUid \in DOMAIN m.endpoints
             /\ m.uid_exporter[nextUid] = exporters[2]

\* The calls of one method that name one endpoint
CallsAbout(m, tgt, meth, ep) ==
    SelectSeq(m.calls, LAMBDA c : c.tgt = tgt /\ c.m = meth /\ c.eps = <<ep>>)

\* C8 -- Failed update notification: for an endpoint whose update_export
\* fails, unexport_service is called and each listener receives exactly one
\* endpoint_removed(endpoint, previous_properties) and no endpoint_updated;
\* for one whose update_export succeeds each listener receives exactly one
\* endpoint_updated(endpoint, previous_properties) and no endpoint_removed.
C8_FailedUpdateNotification ==
    CanHandleEvents =>
    \A svc \in DOMAIN service_uids : \A order \in UidOrders(svc) :
    \A upd \in UpdateResults(svc) : \A bad \in BadListeners :
        LET m == update_service(Machine, svc, order, listeners, upd, bad)
            asked == CallsOf(m, "update_export")
        IN  \A i \in DOMAIN asked :
              LET ep == asked[i].eps[1]
                  failed == asked[i].res = "err"
              IN  /\ Len(CallsAbout(m, asked[i].tgt, "unexport_service", ep))
                        = (IF failed THEN 1 ELSE 0)
                  /\ \A l \in Range(listeners) :
                       /\ Len(CallsAbout(m, l, "endpoint_removed", ep))
                             = (IF failed THEN 1 ELSE 0)
                       /\ Len(CallsAbout(m, l, "endpoint_updated", ep))
                             = (IF failed THEN 0 ELSE 1)
                       /\ \A c \in Range(CallsAbout(m, l, "endpoint_removed", ep)) : c.old

\* C9 -- An endpoint removed by a failed update leaves the index: after an
\* update in which update_export failed for an endpoint, its UID is in
\* neither uid->endpoint nor uid->exporter nor the service's record, and
\* neither get_endpoint nor get_endpoints returns the endpoint.
C9_FailedUpdateLeavesIndex ==
    CanHandleEvents =>
    \A svc \in DOMAIN service_uids : \A order \in UidOrders(svc) :
    \A upd \in UpdateResults(svc) : \A bad \in BadListeners :
        LET m == update_service(Machine, svc, order, listeners, upd, bad)
            asked == CallsOf(m, "update_export")
        IN  \A i \in DOMAIN asked :
              asked[i].res = "err" =>
                LET uid == asked[i].eps[1].uid
                IN  /\ uid \notin DOMAIN m.endpoints
                    /\ uid \notin DOMAIN m.uid_exporter
                    /\ uid \notin UidsOf(m, svc)
                    /\ get_endpoint(m, uid) = None
                    /\ asked[i].eps[1] \notin Range(get_endpoints(m))

\* C10 -- Exporter withdrawal cleanup: after _unbind_exporter no UID of the
\* index maps to the exporter, none of its endpoints is returned by
\* get_endpoint or get_endpoints or listed in a service record, and each
\* listener was told endpoint_removed once for each endpoint the exporter owned.
C10_ExporterWithdrawalCleanup ==
    \A e \in Range(exporters) :
        LET m == unbind_exporter(Machine, e)
            owned == {u \in DOMAIN uid_exporter : uid_exporter[u] = e}
        IN  /\ \A u \in DOMAIN m.uid_exporter : m.uid_exporter[u] # e
            /\ \A u \in owned :
                 /\ get_endpoint(m, u) = None
                 /\ \A ep \in Range(get_endpoints(m)) : ep.uid # u
                 /\ \A s \in DOMAIN m.service_uids : u \notin m.service_uids[s]
                 /\ u \in DOMAIN endpoints =>
                      \A l \in Range(listeners) :
                        Len(CallsAbout(m, l, "endpoint_removed", endpoints[u])) = 1

----------------------------------------------------------------------------
\* A call with its result left out
Sent(c) == [c EXCEPT !.res = ""]

\* Handler run m did what run g, in which no listener raises, did: the same
\* calls on the same targets in the same order, the same maps, the same outcome
Isolated(m, g) ==
    /\ m.escaped = g.escaped
    /\ SameMaps(m, g)
    /\ Len(m.calls) = Len(g.calls)
    /\ \A i \in DOMAIN m.calls : i \in DOMAIN g.calls /\ Sent(m.calls[i]) = Sent(g.calls[i])

\* The inputs of one exporter-bound pass in the current state
ServiceOrders == Orders(DOMAIN service_uids)
BindOuts == [DOMAIN service_uids -> FreshOutcomes]

\* C11 -- Listener failure isolation: in every broadcast (endpoints_added from
\* export and from exporter-bound, endpoint_updated and endpoint_removed from
\* update, endpoint_removed from unexport) an exception raised by a listener
\* is caught: the remaining listeners still receive the event, the remaining
\* UIDs and services are still processed and the operation does not fail,
\* i.e. the handler does what it does when no listener raises.
C11_ListenerIsolation ==
    \A bad \in BadListeners :
      /\ CanExport =>
         \A svc \in Services : \A configs \in ConfigValues : \A outs \in ExportOuts(configs) :
           Isolated(export_service(Machine, svc, configs, exporters, listeners, outs, bad),
                    export_service(Machine, svc, configs, exporters, listeners, outs, {}))
      /\ CanHandleEvents =>
         \A svc \in DOMAIN service_uids : \A order \in UidOrders(svc) :
           /\ \A upd \in UpdateResults(svc) :
                Isolated(update_service(Machine, svc, order, listeners, upd, bad),
                         update_service(Machine, svc, order, listeners, upd, {}))
           /\ Isolated(unexport_service(Machine, svc, order, listeners, bad),
                       unexport_service(Machine, svc, order, listeners, {}))
      /\ validated =>
         \A e \in Exporters \ Range(exporters) : \A order \in ServiceOrders :
         \A outs \in BindOuts : \A nameOk \in BOOLEAN :
           Isolated(bind_exporter(Machine, e, order, listeners, outs, bad, nameOk),
                    bind_exporter(Machine, e, order, listeners, outs, {}, nameOk))

----------------------------------------------------------------------------
\* The UIDs on the record of svc that miss in uid->endpoint or uid->exporter
LostUids(svc) ==
    {u \in UidsOf(Machine, svc) : u \notin DOMAIN endpoints \/ u \notin DOMAIN uid_exporter}

\* The calls of a handler that name the endpoint of one UID
CallsAboutUid(m, u) ==
    SelectSeq(m.calls, LAMBDA c : c.eps # <<>> /\ c.eps[1].uid = u)

\* C18 -- Self-healing update: when update meets a UID that is on the
\* service's record but missing from uid->endpoint or uid->exporter, the UID
\* is removed from the record, no listener is notified for it, no exception
\* leaves update, and every other UID of the record is still processed: its
\* exporter's update_export is called and every listener is notified.
C18_SelfHealingUpdate ==
    CanHandleEvents =>
    \A svc \in DOMAIN service_uids : \A order \in UidOrders(svc) :
    \A upd \in UpdateResults(svc) :
        LET m == update_service(Machine, svc, order, listeners, upd, {})
            lost == LostUids(svc)
        IN  lost # {} =>
              /\ m.escaped = "none"
              /\ UidsOf(m, svc) = service_uids[svc] \ lost
              /\ \A u \in lost : CallsAboutUid(m, u) = <<>>
              /\ \A u \in service_uids[svc] \ lost :
                   /\ Len(CallsAbout(m, uid_exporter[u], "update_export", endpoints[u])) = 1
                   /\ \A l \in Range(listeners) :
                        Len(SelectSeq(CallsAboutUid(m, u), LAMBDA c : c.tgt = l)) = 1

\* C19 -- Unexport order and completeness: unexport removes the service's
\* whole record; for each of its UIDs the owning exporter's unexport_service
\* is called exactly once and endpoint_removed is broadcast, to every listener
\* once, only after that call; when unexport returns, also when a listener
\* raised, the service has no record and none of its UIDs is a key of
\* uid->endpoint or uid->exporter.
C19_UnexportOrder ==
    CanHandleEvents =>
    \A svc \in DOMAIN service_uids : \A order \in UidOrders(svc) : \A bad \in BadListeners :
        LET m == unexport_service(Machine, svc, order, listeners, bad)
        IN  /\ m.escaped = "none"
            /\ svc \notin DOMAIN m.service_uids
            /\ \A u \in service_uids[svc] :
                 LET about   == CallsAboutUid(m, u)
                     removed == {i \in DOMAIN about : about[i].m = "unexport_service"}
                 IN  /\ u \notin DOMAIN m.endpoints
                     /\ u \notin DOMAIN m.uid_exporter
                     /\ Cardinality(removed) = 1
                     /\ u \in DOMAIN uid_exporter /\ u \in DOMAIN endpoints
                     /\ about[1] = Call(uid_exporter[u], "unexport_service", svc,
                                        <<endpoints[u]>>, FALSE, "ok")
                     /\ \A l \in Range(listeners) :
                          Len(CallsAbout(m, l, "endpoint_removed", endpoints[u])) = 1
                     /\ Len(about) = 1 + Len(listeners)

\* C20 -- Exporter bound: an exporter bound after start-up is asked
\* export_service exactly once for every service on record; each endpoint it
\* returns is inserted into the three maps beside the existing endpoints and
\* announced by one endpoints_added([endpoint]) per listener; a service for
\* which it declines or raises a creation error is skipped and the remaining
\* services are still processed.  An exporter bound before start-up makes no
\* exporter call, no map change and no listener call.
C20_ExporterBound ==
    \A e \in Exporters \ Range(exporters) : \A order \in ServiceOrders :
    \A outs \in BindOuts : \A nameOk \in BOOLEAN :
        LET m == bind_exporter(Machine, e, order, listeners, outs, {}, nameOk)
            asked == CallsOf(m, "export_service")
        IN  IF ~validated
            THEN m.calls = <<>> /\ SameMaps(m, Machine) /\ m.escaped = "none"
            ELSE /\ m.escaped = "none"
                 /\ Len(asked) = Cardinality(DOMAIN service_uids)
                 /\ \A s \in DOMAIN service_uids :
                      \E i \in DOMAIN asked :
                        /\ asked[i].tgt = e /\ asked[i].svc = s /\ asked[i].res = outs[s].k
                        /\ asked[i].res = "ok" =>
                             LET ep == asked[i].eps[1]
                             IN  /\ ep.uid \in DOMAIN m.endpoints /\ m.endpoints[ep.uid] = ep
                                 /\ ep.uid \in DOMAIN m.uid_exporter /\ m.uid_exporter[ep.uid] = e
                                 /\ UidsOf(m, s) = service_uids[s] \cup {ep.uid}
                                 /\ \A l \in Range(listeners) :
                                      Len(CallsAbout(m, l, "endpoints_added", ep)) = 1
                 /\ \A u \in DOMAIN endpoints :
                      u \in DOMAIN m.endpoints /\ m.endpoints[u] = endpoints[u]

----------------------------------------------------------------------------
\* RegistryServlet: binding to HTTP servers

\* Values of parameters['http.port']
Ports == {8080, 8081}

\* The servlet path property
ServletPath == "/pelix-dispatcher"

\* The servlet's binding state as one value
Servlet == [ports |-> ports, controller |-> controller]

\* list.remove(x): removes the first occurrence
RECURSIVE RemoveFirst(_, _)
RemoveFirst(s, x) ==
    IF s = <<>> THEN <<>>
    ELSE IF Head(s) = x THEN Tail(s)
    ELSE <<Head(s)>> \o RemoveFirst(Tail(s), x)

bound_to(s, port) ==
    IF port \notin Range(s.ports)
    THEN [s EXCEPT !.ports = Append(@, port), !.controller = TRUE]
    ELSE s

\* unbound_from that deactivates the service with every port it removes
unbound_from_AlwaysOff(s, port) ==
    IF port \in Range(s.ports)
    THEN [s EXCEPT !.ports = RemoveFirst(@, port), !.controller = FALSE]
    ELSE s

unbound_from(s, port) ==
    IF port \in Range(s.ports)
    THEN LET left == RemoveFirst(s.ports, port)
         IN  [s EXCEPT !.ports = left,
                       !.controller = IF left = <<>> THEN FALSE ELSE @]
    ELSE s

\* Python's None, where a (port, path) tuple is expected
NoAccess == [port |-> 0, path |-> ""]

get_access(s) ==
    IF s.ports # <<>> THEN [port |-> s.ports[1], path |-> ServletPath] ELSE NoAccess

BoundTo(port) ==
    /\ ports' = bound_to(Servlet, port).ports
    /\ controller' = bound_to(Servlet, port).controller
    /\ UNCHANGED <<exporters, listeners, endpoints, uid_exporter, service_uids,
                   validated, listening, nextUid, threadVars>>

UnboundFrom(port) ==
    /\ ports' = unbound_from(Servlet, port).ports
    /\ controller' = unbound_from(Servlet, port).controller
    /\ UNCHANGED <<exporters, listeners, endpoints, uid_exporter, service_uids,
                   validated, listening, nextUid, threadVars>>

NextServlet ==
    \/ Validate
    \/ \E kind \in Kinds, svc \in Services : ServiceChanged(kind, svc)
    \/ \E exporter \in Exporters : BindExporter(exporter)
    \/ \E port \in Ports : BoundTo(port)
    \/ \E port \in Ports : UnboundFrom(port)

\* The servlet, bound and unbound by HTTP servers, beside a dispatcher whose
\* index is filled and emptied by service events
SpecServlet == Init /\ [][NextServlet]_vars

\* C13 -- Servlet binding lifecycle: after any sequence of bound_to and
\* unbound_from calls the service controller is active if and only if the
\* list of bound ports is not empty; the list holds each port at most once;
\* unbinding a port that is not bound changes nothing; get_access returns
\* none exactly when no port is bound.
C13_BindingLifecycle ==
    /\ controller <=> ports # <<>>
    /\ \A i, j \in DOMAIN ports : ports[i] = ports[j] => i = j
    /\ \A port \in Ports \ Range(ports) : unbound_from(Servlet, port) = Servlet
    /\ \A port \in Range(ports) : bound_to(Servlet, port) = Servlet
    /\ get_access(Servlet) = NoAccess <=> ports = <<>>
    /\ ports # <<>> => get_access(Servlet).port = ports[1]

\* Two ports are bound; unbinding the first one leaves the service active and
\* the access on the second port
C13_Witness ==
    /\ Len(ports) = 2
    /\ controller
    /\ LET s == unbound_from(Servlet, ports[1])
       IN  /\ s.controller
           /\ s.ports = <<ports[2]>>
           /\ get_access(s).port = ports[2]
           /\ ~unbound_from(s, ports[2]).controller

----------------------------------------------------------------------------
\* RegistryServlet: the wire record and its ingestion

\* self._fw_uid of the servlet, and the framework UID of a peer
FrameworkUid == "fw-local"
PeerUid      == "fw-peer"

\* Property names of pelix.remote
PROP_EXPORTED_CONFIGS    == "exported.configs"
PROP_EXPORTED_INTERFACES == "exported.interfaces"
PROP_IMPORTED            == "imported"
PROP_IMPORTED_CONFIGS    == "imported.configs"
PROP_FRAMEWORK_UID       == "framework.uid"
OBJECTCLASS              == "objectClass"
PropertyNames ==
    {PROP_EXPORTED_CONFIGS, PROP_EXPORTED_INTERFACES, PROP_IMPORTED,
     PROP_IMPORTED_CONFIGS, PROP_FRAMEWORK_UID, OBJECTCLASS}

\* Python's True as a property value
TrueValue == "True"

\* The value a property of an exported service has when it is present
ExportedValue(name) ==
    CASE name = PROP_EXPORTED_CONFIGS    -> "cfgA"
      [] name = PROP_EXPORTED_INTERFACES -> "*"
      [] name = PROP_IMPORTED            -> "False"
      [] name = PROP_IMPORTED_CONFIGS    -> "cfgOld"
      [] name = PROP_FRAMEWORK_UID       -> "fw-other"
      [] OTHER                           -> "spec"

\* Results of endpoint.get_properties(): any subset of the names is present
PropertySets == {[n \in N |-> ExportedValue(n)] : N \in SUBSET PropertyNames}

\* RegistryServlet._make_endpoint_dict; properties: endpoint.get_properties().
\* The endpoint's name and specifications are those of its service, its
\* configurations the one of its exporter
make_endpoint_dict(sender, endpoint, properties) ==
    [sender         |-> sender,
     uid            |-> endpoint.uid,
     configurations |-> <<endpoint.exp>>,
     name           |-> endpoint.svc,
     specifications |-> <<endpoint.svc>>,
     properties     |-> properties]

\* filter_properties that keeps exported.interfaces
filter_properties_KeepInterfaces(framework_uid, properties) ==
    LET p1 == Put(properties, PROP_IMPORTED, TrueValue)
        p2 == IF PROP_EXPORTED_CONFIGS \in DOMAIN p1
              THEN Put(p1, PROP_IMPORTED_CONFIGS, p1[PROP_EXPORTED_CONFIGS])
              ELSE p1
        p3 == Drop(p2, PROP_EXPORTED_CONFIGS)
    IN  Put(p3, PROP_FRAMEWORK_UID, framework_uid)

\* RegistryServlet.filter_properties
filter_properties(framework_uid, properties) ==
    LET p1 == Put(properties, PROP_IMPORTED, TrueValue)
        p2 == IF PROP_EXPORTED_CONFIGS \in DOMAIN p1
              THEN Put(p1, PROP_IMPORTED_CONFIGS, p1[PROP_EXPORTED_CONFIGS])
              ELSE p1
        p3 == Drop(Drop(p2, PROP_EXPORTED_CONFIGS), PROP_EXPORTED_INTERFACES)
    IN  Put(p3, PROP_FRAMEWORK_UID, framework_uid)

\* RegistryServlet.register_endpoint: the ImportEndpoint given to registry.add
register_endpoint(host_address, endpoint_dict) ==
    LET framework  == endpoint_dict.sender
        properties == filter_properties(framework, endpoint_dict.properties)
    IN  [uid            |-> endpoint_dict.uid,
         framework      |-> framework,
         configurations |-> endpoint_dict.configurations,
         name           |-> endpoint_dict.name,
         specifications |-> endpoint_dict.specifications,
         properties     |-> properties,
         server         |-> host_address]

----------------------------------------------------------------------------
\* RegistryServlet: HTTP requests

\* A segment of request.get_path().split('/'): a literal text, or the text of
\* the UID uid
Lit(text)   == [lit |-> text, uid |-> 0]
UidSeg(uid) == [lit |-> "", uid |-> uid]

\* The key of self.__endpoints a text is equal to; 0: it is the text of no UID
TextKey(seg) == IF seg.lit = "" THEN seg.uid ELSE 0

\* "/pelix-dispatcher".split('/')
BaseParts == <<Lit(""), Lit("pelix-dispatcher")>>

\* The segments a request path continues with after the base
Segments == {Lit("endpoints"), Lit("endpoint"), Lit("x")} \cup {UidSeg(u) : u \in 1..MaxUid}
Rests == {<<>>} \cup {<<a>> : a \in Segments} \cup {<<a, b>> : a, b \in Segments}

\* Python values that have a JSON form: a list, a dictionary
List(list) == [array |-> list]
Dict(dict) == [object |-> dict]

\* Texts: the JSON document of a value, the empty text, a plain message
EmptyBody       == [empty |-> TRUE]
Plain(text)     == [plain |-> text]
UnknownUid(seg) == [unknown_uid |-> seg]

\* json.dumps: the JSON document of the value
dumps(data) == [json |-> data]

\* json.loads: the value of a JSON document, ValueError for any other text
loads(text) ==
    IF "json" \in DOMAIN text THEN [err |-> "none", val |-> text.json]
    ELSE [err |-> "ValueError", val |-> List(<<>>)]

\* response.send_content(status, content, mime_type)
Response(status, content, mime) == [status |-> status, content |-> content, mime |-> mime]

\* What a request handler did: the responses it sent, the endpoints it gave to
\* registry.add, the exception that left it
Handled(sent, adds, escaped) == [sent |-> sent, adds |-> adds, escaped |-> escaped]

\* The wire records of a list of endpoints
RECURSIVE MakeDicts(_, _)
MakeDicts(eps, props) ==
    IF eps = <<>> THEN <<>>
    ELSE <<make_endpoint_dict(FrameworkUid, Head(eps), props[Head(eps).uid])>>
         \o MakeDicts(Tail(eps), props)

\* RegistryServlet.do_GET; props: the result of get_properties() per endpoint
do_GET(m, parts, props) ==
    LET last == parts[Len(parts)]
        prev == parts[Len(parts) - 1]
    IN  IF prev = Lit("endpoint")
        THEN LET endpoint == get_endpoint(m, TextKey(last))
             IN  IF endpoint = None
                 THEN Handled(<<Response(404, UnknownUid(last), "text/plain")>>, <<>>, "none")
                 ELSE Handled(<<Response(200,
                                         dumps(Dict(make_endpoint_dict(FrameworkUid, endpoint,
                                                                       props[endpoint.uid]))),
                                         "application/json")>>, <<>>, "none")
        ELSE IF last = Lit("endpoints")
        THEN Handled(<<Response(200, dumps(List(MakeDicts(get_endpoints(m), props))),
                                "application/json")>>, <<>>, "none")
        ELSE Handled(<<Response(404, Plain("Unhandled path"), "text/plain")>>, <<>>, "none")

\* The calls of register_endpoint for the records of a body
RECURSIVE RegisterAll(_, _)
RegisterAll(sender, dicts) ==
    IF dicts = <<>> THEN <<>>
    ELSE <<register_endpoint(sender, Head(dicts))>> \o RegisterAll(sender, Tail(dicts))

\* RegistryServlet.do_POST; client: request.get_client_address()[0]
do_POST(parts, body, client) ==
    IF parts[Len(parts)] # Lit("endpoints")
    THEN Handled(<<Response(404, Plain("Unhandled path"), "text/plain")>>, <<>>, "none")
    ELSE LET read == loads(body)
         IN  IF read.err # "none" THEN Handled(<<>>, <<>>, read.err)
             ELSE Handled(<<Response(200, Plain("OK"), "text/plain")>>,
                          RegisterAll(client, read.val.array), "none")

----------------------------------------------------------------------------
\* The inputs of a request in the current state
IndexProperties == [DOMAIN endpoints -> PropertySets]
Clients == {"10.0.0.1", "10.0.0.2"}

\* Requests reach do_GET and do_POST through a server the servlet is bound to
CanServe == ports # <<>>

\* The bodies a peer posts: send_discovered of a peer whose index holds some of
\* the endpoints of this index, in any order
PeerLists == UNION {Orders(E) : E \in SUBSET {endpoints[u] : u \in DOMAIN endpoints}}
PeerProperties == {p \in PropertySets : DOMAIN p \subseteq {PROP_EXPORTED_CONFIGS, OBJECTCLASS}}

RECURSIVE PeerDicts(_, _)
PeerDicts(eps, properties) ==
    IF eps = <<>> THEN <<>>
    ELSE <<make_endpoint_dict(PeerUid, Head(eps), properties)>>
         \o PeerDicts(Tail(eps), properties)

\* C14 -- GET routing: GET {base}/endpoints answers 200 with the JSON array
\* of the wire records of exactly the endpoints in the index ([] when empty);
\* GET {base}/endpoint/{uid} answers 200 with the endpoint's wire record when
\* the UID is in the index and 404 "Unknown UID: {uid}" otherwise; any other
\* path under the base answers 404 "Unhandled path"; exactly one response is
\* sent per request.
C14_GetRouting ==
    CanServe =>
    \A rest \in Rests : \A props \in IndexProperties :
        LET r == do_GET(Machine, BaseParts \o rest, props)
            wire(u) == make_endpoint_dict(FrameworkUid, endpoints[u], props[u])
        IN  /\ r.escaped = "none"
            /\ Len(r.sent) = 1
            /\ IF rest = <<Lit("endpoints")>>
               THEN /\ r.sent[1].status = 200
                    /\ r.sent[1].mime = "application/json"
                    /\ loads(r.sent[1].content).err = "none"
                    /\ "array" \in DOMAIN loads(r.sent[1].content).val
                    /\ LET records == loads(r.sent[1].content).val.array
                       IN  /\ Len(records) = Cardinality(DOMAIN endpoints)
                           /\ Range(records) = {wire(u) : u \in DOMAIN endpoints}
               ELSE IF Len(rest) = 2 /\ rest[1] = Lit("endpoint")
               THEN IF TextKey(rest[2]) \in DOMAIN endpoints
                    THEN r.sent[1] = Response(200, dumps(Dict(wire(TextKey(rest[2])))),
                                              "application/json")
                    ELSE r.sent[1] = Response(404, UnknownUid(rest[2]), "text/plain")
               ELSE r.sent[1] = Response(404, Plain("Unhandled path"), "text/plain")

\* C15 -- POST ingest: a POST to {base}/endpoints whose body is a JSON array
\* of k wire records makes exactly k add calls on the import registry, one
\* ImportEndpoint per record in body order, each with server set to the
\* requester's address, and answers 200 "OK"; a POST to any other path
\* answers 404 "Unhandled path" and makes no add call.
C15_PostIngest ==
    CanServe =>
    \A rest \in Rests : \A eps \in PeerLists : \A properties \in PeerProperties :
    \A client \in Clients :
        LET dicts == PeerDicts(eps, properties)
            r == do_POST(BaseParts \o rest, dumps(List(dicts)), client)
        IN  IF rest = <<Lit("endpoints")>>
            THEN /\ r.escaped = "none"
                 /\ r.sent = <<Response(200, Plain("OK"), "text/plain")>>
                 /\ Len(r.adds) = Len(dicts)
                 /\ \A i \in DOMAIN r.adds :
                      /\ r.adds[i].uid = dicts[i].uid
                      /\ r.adds[i].framework = PeerUid
                      /\ r.adds[i].server = client
            ELSE /\ r.escaped = "none"
                 /\ r.sent = <<Response(404, Plain("Unhandled path"), "text/plain")>>
                 /\ r.adds = <<>>

\* C16 -- Tolerated empty POST body: a POST to {base}/endpoints whose body is
\* empty or missing makes no add call on the import registry and completes
\* with a 200 response; no exception leaves the handler.
C16_EmptyPostBody ==
    CanServe =>
    \A client \in Clients :
        LET r == do_POST(BaseParts \o <<Lit("endpoints")>>, EmptyBody, client)
        IN  /\ r.escaped = "none"
            /\ r.adds = <<>>
            /\ Len(r.sent) = 1
            /\ r.sent[1].status = 200

\* The properties the transform leaves alone
OtherNames ==
    PropertyNames \ {PROP_IMPORTED, PROP_IMPORTED_CONFIGS, PROP_EXPORTED_CONFIGS,
                     PROP_EXPORTED_INTERFACES, PROP_FRAMEWORK_UID}

----------------------------------------------------------------------------
\* The handlers that write the maps, run by a thread one source line at a
\* time, beside a thread that reads through get_endpoints.  No handler takes
\* self.__lock: get_endpoints is the only place of the source that does.

dispatcherLists == <<exporters, listeners, validated, listening>>

\* listener.endpoints_added(eps) for every listener of lsts: each of them has
\* been given each endpoint once more
Tell(t, lsts, eps) ==
    LET given == {<<l, ep.uid>> : l \in Range(lsts), ep \in Range(eps)}
        before(k) == IF k \in DOMAIN t THEN t[k] ELSE 0
    IN  [k \in DOMAIN t \cup given |->
            IF k \in given THEN (IF before(k) = 0 THEN 1 ELSE 2) ELSE t[k]]

\* service_changed -> __export_service, lines 205-223: the record is created,
\* the candidate exporters are selected
ExportBegin(svc) ==
    /\ pc = Idle
    /\ listening
    /\ \E kind \in {REGISTERED, MODIFIED} : RunsExport(kind, svc)
    /\ service_uids' = IF svc \in DOMAIN service_uids THEN service_uids
                       ELSE Put(service_uids, svc, {})
    /\ \E configs \in ConfigValues :
         pc' = IF Candidates(exporters, configs) = <<>> THEN Idle
               ELSE Frame("export", 233, svc, "", Candidates(exporters, configs), None)
    /\ UNCHANGED <<dispatcherLists, endpoints, uid_exporter, nextUid, servletVars, reader, pc2, told>>

\* line 233: exporter.export_service(...); once the loop is over, lines
\* 249-256: the endpoints of the pass are given to a copy of self._listeners
ExportCall ==
    /\ pc.op = "export" /\ pc.at = 233
    /\ IF pc.todo = <<>>
       THEN /\ pc' = Idle
            /\ told' = Tell(told, listeners, pc.eps)
            /\ UNCHANGED nextUid
       ELSE \E out \in FreshOutcomes :
              IF out.k = "ok"
              THEN /\ nextUid <= MaxUid
                   /\ nextUid' = nextUid + 1
                   /\ pc' = [pc EXCEPT !.at = 242, !.exp = Head(pc.todo),
                                       !.todo = Tail(pc.todo),
                                       !.ep = NewEndpoint(Machine, pc.svc, Head(pc.todo), out),
                                       !.eps = Append(@, NewEndpoint(Machine, pc.svc,
                                                                     Head(pc.todo), out))]
                   /\ UNCHANGED told
              ELSE /\ pc' = [pc EXCEPT !.todo = Tail(pc.todo)]
                   /\ UNCHANGED <<nextUid, told>>
    /\ UNCHANGED <<dispatcherLists, endpoints, uid_exporter, service_uids, servletVars, reader, pc2>>

\* line 242: self.__endpoints[uid] = endpoint
Export242 ==
    /\ pc.op = "export" /\ pc.at = 242
    /\ endpoints' = Put(endpoints, pc.ep.uid, pc.ep)
    /\ pc' = [pc EXCEPT !.at = 243]
    /\ UNCHANGED <<dispatcherLists, uid_exporter, service_uids, nextUid, servletVars, reader, pc2, told>>

\* line 243: self.__uid_exporter[uid] = exporter
Export243 ==
    /\ pc.op = "export" /\ pc.at = 243
    /\ uid_exporter' = Put(uid_exporter, pc.ep.uid, pc.exp)
    /\ pc' = [pc EXCEPT !.at = 244]
    /\ UNCHANGED <<dispatcherLists, endpoints, service_uids, nextUid, servletVars, reader, pc2, told>>

\* line 244: service_uids.add(uid)
Export244 ==
    /\ pc.op = "export" /\ pc.at = 244
    /\ service_uids' = Put(service_uids, pc.svc, UidsOf(Machine, pc.svc) \cup {pc.ep.uid})
    /\ pc' = [pc EXCEPT !.at = 233, !.ep = None]
    /\ UNCHANGED <<dispatcherLists, endpoints, uid_exporter, nextUid, servletVars, reader, pc2, told>>

\* service_changed -> __unexport_service, line 316: the record is popped
UnexportBegin(svc) ==
    /\ pc = Idle
    /\ listening
    /\ svc \in DOMAIN service_uids
    /\ service_uids' = Drop(service_uids, svc)
    /\ \E order \in Orders(service_uids[svc]) :
         pc' = Frame("unexport", 325, svc, "", order, None)
    /\ UNCHANGED <<dispatcherLists, endpoints, uid_exporter, nextUid, servletVars, reader, pc2, told>>

\* line 325: endpoint = self.__endpoints.pop(uid), or KeyError: next UID
Unexport325 ==
    /\ pc.op = "unexport" /\ pc.at = 325
    /\ IF pc.todo = <<>>
       THEN pc' = Idle /\ UNCHANGED endpoints
       ELSE IF Head(pc.todo) \notin DOMAIN endpoints
       THEN pc' = [pc EXCEPT !.todo = Tail(pc.todo)] /\ UNCHANGED endpoints
       ELSE /\ endpoints' = Drop(endpoints, Head(pc.todo))
            /\ pc' = [pc EXCEPT !.at = 326, !.ep = endpoints[Head(pc.todo)]]
    /\ UNCHANGED <<dispatcherLists, uid_exporter, service_uids, nextUid, servletVars, reader, pc2, told>>

\* line 326: exporter = self.__uid_exporter.pop(uid), or KeyError; then the
\* exporter and the listeners are called (lines 334-343)
Unexport326 ==
    /\ pc.op = "unexport" /\ pc.at = 326
    /\ uid_exporter' = IF Head(pc.todo) \in DOMAIN uid_exporter
                       THEN Drop(uid_exporter, Head(pc.todo)) ELSE uid_exporter
    /\ pc' = [pc EXCEPT !.at = 325, !.todo = Tail(pc.todo), !.ep = None]
    /\ UNCHANGED <<dispatcherLists, endpoints, service_uids, nextUid, servletVars, reader, pc2, told>>

\* _bind_exporter, lines 368-372: the exporter is in self._exporters
BindBegin(exporter) ==
    /\ pc = Idle
    /\ exporter \notin Range(exporters)
    /\ exporters' = Append(exporters, exporter)
    /\ \E order \in Orders(IF validated THEN DOMAIN service_uids ELSE {}) :
         pc' = IF order = <<>> THEN Idle ELSE Frame("bind", 374, "", exporter, order, None)
    /\ UNCHANGED <<listeners, validated, listening, endpoints, uid_exporter, service_uids,
                   nextUid, servletVars, reader, pc2, told>>

\* lines 374-378: the endpoint name, then exporter.export_service(...); an
\* AttributeError (the name of a reference, the uid of None) ends the handler
BindCall ==
    /\ pc.op = "bind" /\ pc.at = 374
    /\ IF pc.todo = <<>>
       THEN pc' = Idle /\ UNCHANGED nextUid
       ELSE \E nameOk \in BOOLEAN : \E out \in FreshOutcomes :
              IF ~nameOk \/ out.k = "none"
              THEN pc' = Idle /\ UNCHANGED nextUid
              ELSE IF out.k = "err"
              THEN pc' = [pc EXCEPT !.todo = Tail(pc.todo)] /\ UNCHANGED nextUid
              ELSE /\ nextUid <= MaxUid
                   /\ nextUid' = nextUid + 1
                   /\ pc' = [pc EXCEPT !.at = 382, !.svc = Head(pc.todo),
                                       !.todo = Tail(pc.todo),
                                       !.ep = NewEndpoint(Machine, Head(pc.todo), pc.exp, out)]
    /\ UNCHANGED <<dispatcherLists, endpoints, uid_exporter, service_uids, servletVars, reader, pc2, told>>

\* line 382: self.__endpoints[uid] = endpoint
Bind382 ==
    /\ pc.op = "bind" /\ pc.at = 382
    /\ endpoints' = Put(endpoints, pc.ep.uid, pc.ep)
    /\ pc' = [pc EXCEPT !.at = 383]
    /\ UNCHANGED <<dispatcherLists, uid_exporter, service_uids, nextUid, servletVars, reader, pc2, told>>

\* line 383: self.__uid_exporter[uid] = exporter
Bind383 ==
    /\ pc.op = "bind" /\ pc.at = 383
    /\ uid_exporter' = Put(uid_exporter, pc.ep.uid, pc.exp)
    /\ pc' = [pc EXCEPT !.at = 384]
    /\ UNCHANGED <<dispatcherLists, endpoints, service_uids, nextUid, servletVars, reader, pc2, told>>

\* line 384: self.__service_uids.setdefault(svc_ref, set()).add(uid); then the
\* listeners are called (lines 391-393)
Bind384 ==
    /\ pc.op = "bind" /\ pc.at = 384
    /\ service_uids' = Put(service_uids, pc.svc, UidsOf(Machine, pc.svc) \cup {pc.ep.uid})
    /\ told' = Tell(told, listeners, <<pc.ep>>)
    /\ pc' = [pc EXCEPT !.at = 374, !.ep = None]
    /\ UNCHANGED <<dispatcherLists, endpoints, uid_exporter, nextUid, servletVars, reader, pc2>>

\* get_endpoints, line 424: with self.__lock -- the lock is free whenever no
\* other reader holds it, since no handler acquires it
GetEndpointsEnter ==
    /\ reader = "out"
    /\ reader' = "locked"
    /\ UNCHANGED <<dispatcherLists, endpoints, uid_exporter, service_uids, nextUid,
                   servletVars, pc, pc2, told>>

\* get_endpoints, line 426: the list is taken and the lock released
GetEndpointsExit ==
    /\ reader = "locked"
    /\ reader' = "out"
    /\ UNCHANGED <<dispatcherLists, endpoints, uid_exporter, service_uids, nextUid,
                   servletVars, pc, pc2, told>>

\* Start-up as one step, before any other thread calls the dispatcher
ValidateFirst == pc = Idle /\ Validate

NextThreads ==
    \/ ValidateFirst
    \/ \E svc \in Services : ExportBegin(svc)
    \/ ExportCall
    \/ Export242
    \/ Export243
    \/ Export244
    \/ \E svc \in Services : UnexportBegin(svc)
    \/ Unexport325
    \/ Unexport326
    \/ \E exporter \in Exporters : BindBegin(exporter)
    \/ BindCall
    \/ Bind382
    \/ Bind383
    \/ Bind384
    \/ GetEndpointsEnter
    \/ GetEndpointsExit

\* One thread in the writing handlers and one thread in get_endpoints
SpecThreads == Init /\ [][NextThreads]_vars

\* Every UID is in the three maps or in none
ThreeMapsAgree ==
    /\ DOMAIN endpoints = DOMAIN uid_exporter
    /\ UNION {service_uids[s] : s \in DOMAIN service_uids} = DOMAIN endpoints

\* C12 -- Atomicity across the three maps under concurrency: the maps are
\* mutated with the mutex held, so that while a thread runs export, unexport
\* or exporter-bound, a reader in another thread never observes a state in
\* which a UID is present in one of the three maps and absent from another:
\* whenever the reader holds the mutex inside get_endpoints the maps agree.
C12_AtomicMaps == reader = "locked" => ThreeMapsAgree

----------------------------------------------------------------------------
\* C21 -- An export pass that creates no endpoint leaves the index unchanged:
\* when export returns without creating an endpoint (no exporter registered,
\* no matching exporter, or every candidate declined or failed) the three
\* maps, including the set of services that have a record, are as before the
\* call, so that a later MODIFIED event of a service that had no record is
\* still dispatched to export and not to update.
C21_EmptyExportLeavesIndex ==
    CanExport =>
    \A svc \in Services : \A configs \in ConfigValues :
    \A outs \in ExportOuts(configs) : \A bad \in BadListeners :
        LET m == export_service(Machine, svc, configs, exporters, listeners, outs, bad)
            later == service_changed([m EXCEPT !.calls = <<>>, !.ran = <<>>],
                                     MODIFIED, svc, configs, <<>>, exporters, listeners,
                                     outs, <<>>, bad)
        IN  CreatedBy(m.calls) = <<>> =>
              /\ m.escaped = "none"
              /\ SameMaps(m, Machine)
              /\ DOMAIN m.service_uids = DOMAIN service_uids
              /\ svc \notin DOMAIN service_uids => later.ran = <<"export">>

----------------------------------------------------------------------------
\* Two threads in the handlers: the first one (pc) exports services and binds
\* exporters, the second one (pc2) handles the UNREGISTERING event of a
\* service and binds listeners.  None of these handlers takes self.__lock.

\* The second thread handles, or has handled, the UNREGISTERING event of svc
Unregistered(svc) == pc2.op \in {"unexport", "unregistered"} /\ pc2.svc = svc

\* The events of one service are delivered in order: none after UNREGISTERING
ExportBeginLive(svc) == ~Unregistered(svc) /\ ExportBegin(svc)

\* service_changed(UNREGISTERING) -> __unexport_service, line 316
UnregisteringBegin(svc) ==
    /\ pc2 = Idle
    /\ listening
    /\ svc \in DOMAIN service_uids
    /\ ~(pc.op = "export" /\ pc.svc = svc)
    /\ service_uids' = Drop(service_uids, svc)
    /\ \E order \in Orders(service_uids[svc]) :
         pc2' = Frame("unexport", 325, svc, "", order, None)
    /\ UNCHANGED <<dispatcherLists, endpoints, uid_exporter, nextUid, servletVars,
                   pc, reader, told>>

\* line 325: endpoint = self.__endpoints.pop(uid), or KeyError: next UID; the
\* handler returns when the loop is over
Unregistering325 ==
    /\ pc2.op = "unexport" /\ pc2.at = 325
    /\ IF pc2.todo = <<>>
       THEN pc2' = Frame("unregistered", 0, pc2.svc, "", <<>>, None) /\ UNCHANGED endpoints
       ELSE IF Head(pc2.todo) \notin DOMAIN endpoints
       THEN pc2' = [pc2 EXCEPT !.todo = Tail(pc2.todo)] /\ UNCHANGED endpoints
       ELSE /\ endpoints' = Drop(endpoints, Head(pc2.todo))
            /\ pc2' = [pc2 EXCEPT !.at = 326, !.ep = endpoints[Head(pc2.todo)]]
    /\ UNCHANGED <<dispatcherLists, uid_exporter, service_uids, nextUid, servletVars,
                   pc, reader, told>>

\* line 326: exporter = self.__uid_exporter.pop(uid), or KeyError; then the
\* exporter and the listeners are called (lines 334-343)
Unregistering326 ==
    /\ pc2.op = "unexport" /\ pc2.at = 326
    /\ uid_exporter' = IF Head(pc2.todo) \in DOMAIN uid_exporter
                       THEN Drop(uid_exporter, Head(pc2.todo)) ELSE uid_exporter
    /\ pc2' = [pc2 EXCEPT !.at = 325, !.todo = Tail(pc2.todo), !.ep = None]
    /\ UNCHANGED <<dispatcherLists, endpoints, service_uids, nextUid, servletVars,
                   pc, reader, told>>

\* _bind_listener: the listener is in self._listeners when the callback runs
ListenerBegin ==
    /\ pc2 = Idle
    /\ Len(listeners) < Len(ListenerIds)
    /\ listeners' = Append(listeners, ListenerIds[Len(listeners) + 1])
    /\ pc2' = Frame("listener", 353, "", "", <<>>, None)
    /\ UNCHANGED <<exporters, validated, listening, endpoints, uid_exporter, service_uids,
                   nextUid, servletVars, pc, reader, told>>

\* lines 353-355: listener.endpoints_added(list(self.__endpoints.values()))
Listener353 ==
    /\ pc2.op = "listener" /\ pc2.at = 353
    /\ told' = Tell(told, <<listeners[Len(listeners)]>>, Values(endpoints))
    /\ pc2' = Idle
    /\ UNCHANGED <<dispatcherLists, endpoints, uid_exporter, service_uids, nextUid,
                   servletVars, pc, reader>>

\* The endpoints_added calls of a handler's log, counted per listener and UID
RECURSIVE TellCalls(_, _)
TellCalls(t, cs) ==
    IF cs = <<>> THEN t
    ELSE TellCalls(IF Head(cs).m = "endpoints_added"
                   THEN Tell(t, <<Head(cs).tgt>>, Head(cs).eps) ELSE t,
                   Tail(cs))

\* validate as one step, before the two threads call the dispatcher; the
\* listeners of this specification do not raise
StartUp ==
    /\ pc = Idle /\ pc2 = Idle
    /\ ~validated
    /\ \E refs \in ListsOf(Services) :
       \E configs \in [Range(refs) -> ConfigValues] :
       \E outs \in [Range(refs) -> [Range(exporters) -> FreshOutcomes]] :
         LET m == ValidateLoop(Machine, refs, configs, exporters, listeners, outs, {})
         IN  /\ Commit(m)
             /\ validated' = TRUE
             /\ listening' = (m.escaped = "none")
             /\ told' = TellCalls(told, m.calls)
    /\ UNCHANGED <<exporters, listeners, servletVars, pc, reader, pc2>>

NextRace ==
    \/ StartUp
    \/ \E svc \in Services : ExportBeginLive(svc)
    \/ ExportCall
    \/ Export242
    \/ Export243
    \/ Export244
    \/ \E exporter \in Exporters : BindBegin(exporter)
    \/ BindCall
    \/ Bind382
    \/ Bind383
    \/ Bind384
    \/ \E svc \in Services : UnregisteringBegin(svc)
    \/ Unregistering325
    \/ Unregistering326
    \/ ListenerBegin
    \/ Listener353

\* One thread in export and exporter-bound, one in unexport and listener-bound
SpecRace == Init /\ [][NextRace]_vars

\* C22 -- No endpoint outlives its service under concurrent exporter binding:
\* when the UNREGISTERING event of a service is handled in one thread while
\* exporter-bound runs in another, then once both have completed the service
\* has no record and no endpoint created for it remains in uid->endpoint or
\* uid->exporter (every UID left in uid->exporter has its endpoint in
\* uid->endpoint, and that endpoint is the one of another service).
C22_NoEndpointOutlivesService ==
    (pc = Idle /\ pc2.op = "unregistered") =>
        /\ pc2.svc \notin DOMAIN service_uids
        /\ \A u \in DOMAIN endpoints : endpoints[u].svc # pc2.svc
        /\ \A u \in DOMAIN uid_exporter :
             u \in DOMAIN endpoints /\ endpoints[u].svc # pc2.svc

\* C23 -- No missed or duplicated announcement when a listener joins during
\* an export: when a listener is bound in one thread while the export of a
\* service is in flight in another, the listener is told about each endpoint
\* created by that export in exactly one endpoints_added call, the bind-time
\* snapshot or the broadcast of the export, never both and never neither.
\* Stated where the export has stored its endpoints and is about to
\* broadcast them (lines 249-256) and no listener is inside _bind_listener:
\* after the broadcast every bound listener has been told once about each
\* endpoint of the pass.
C23_ToldExactlyOnce ==
    (pc.op = "export" /\ pc.at = 233 /\ pc.todo = <<>> /\ pc2.op # "listener") =>
        LET after == Tell(told, listeners, pc.eps)
        IN  \A l \in Range(listeners) : \A ep \in Range(pc.eps) :
                after[<<l, ep.uid>>] = 1
====
